---- MODULE Spec2Model ----
(***************************************************************************)
(* Model of scripts/dataset_download/specific_files_download.py:           *)
(* download_all_data reads the subject_id column, deduplicates it, opens a *)
(* thread pool and runs download_patient_data once per all-digit id.       *)
(* Strings are sequences of one-character strings.                         *)
(***************************************************************************)
EXTENDS Integers, Sequences, FiniteSets, TLC

\* ---------------------------------------------------------------- bounds
MaxLen == 3          \* longest subject_id column explored
MaxWorkers == 2      \* largest --min_workers explored

\* ------------------------------------------------------- column contents
DigitChars == <<"0", "1", "2", "3", "4", "5", "6", "7", "8", "9">>

Digits == {DigitChars[i] : i \in 1..10}

IntCell(n) == [kind |-> "int", n |-> n, s |-> <<>>]
FloatCell(n) == [kind |-> "float", n |-> n, s |-> <<>>]
NaNCell == [kind |-> "nan", n |-> 0, s |-> <<>>]
StrCell(s) == [kind |-> "str", n |-> 0, s |-> s]

\* cells of an int64 column, of a float64 column, of an object column
IntCells == {IntCell(7), IntCell(10), IntCell(10000032)}
FloatCells == {FloatCell(-5), NaNCell}
ObjectCells == {StrCell(<<"x", "1">>), StrCell(<<"1", "2">>), NaNCell}

SeqsUpTo(S, n) == UNION {[1..k -> S] : k \in 0..n}

\* a column read by pandas has one dtype
Columns == SeqsUpTo(IntCells, MaxLen) \cup SeqsUpTo(FloatCells, MaxLen)
             \cup SeqsUpTo(ObjectCells, MaxLen)

MinWorkerValues == (-1)..MaxWorkers

Usernames == {"alice", "bob"}

\* ------------------------------------------------------- pure functions
RECURSIVE NatToStr(_)
NatToStr(n) ==
  IF n < 10 THEN <<DigitChars[n + 1]>>
  ELSE NatToStr(n \div 10) \o <<DigitChars[(n % 10) + 1]>>

\* Series.astype(str) on one element
astype_str(c) ==
  CASE c.kind = "int" -> IF c.n < 0 THEN <<"-">> \o NatToStr(-c.n) ELSE NatToStr(c.n)
    [] c.kind = "float" -> (IF c.n < 0 THEN <<"-">> \o NatToStr(-c.n) ELSE NatToStr(c.n))
                             \o <<".", "0">>
    [] c.kind = "nan" -> <<"n", "a", "n">>
    [] OTHER -> c.s

\* mutant of isdigit: some character is a digit
isdigit_any(s) == \E i \in 1..Len(s) : s[i] \in Digits

\* str.isdigit(): non-empty and every character a digit
isdigit(s) == Len(s) > 0 /\ \A i \in 1..Len(s) : s[i] \in Digits

\* set(df['subject_id'].astype(str).tolist())
patient_ids_of(col) == {astype_str(col[i]) : i \in 1..Len(col)}

Min(a, b) == IF a <= b THEN a ELSE b

\* min(min_workers, len(patient_ids))
pool_size(mw, ids) == Min(mw, Cardinality(ids))

\* mutant of first_two: patient_id[:3]
first_three(id) == SubSeq(id, 1, Min(3, Len(id)))

\* patient_id[:2]
first_two(id) == SubSeq(id, 1, Min(2, Len(id)))

folder(id) == <<"p">> \o first_two(id)

patient_folder(id) == <<"p">> \o id

BaseUrl == "https://physionet.org/files/mimic-cxr-jpg/2.0.0/files/"

url(id) == <<BaseUrl>> \o folder(id) \o <<"/">> \o patient_folder(id) \o <<"/">>

command(id, user) == [id |-> id, user |-> user, url |-> url(id)]

\* how subprocess.run(command, check=True) can come back: exit code 0,
\* CalledProcessError, FileNotFoundError
Outcomes == {"ok", "nonzero", "missing"}

\* mutant of task_future: no except clause, the failure leaves the task
task_future_uncaught(outcome) == IF outcome = "ok" THEN "returned" ELSE "raised"

\* the try/except of download_patient_data: how the pool's future ends
task_future(outcome) == "returned"

\* the try/except of download_patient_data: what is printed on return
task_log(id, outcome) ==
  IF outcome = "ok" THEN {} ELSE {[kind |-> "task_error", id |-> id]}

\* ------------------------------------------------------------------ state
VARIABLES
  csv,           \* "ok", "unreadable" or "no_column"
  column,        \* the subject_id column of the file
  min_workers,   \* --min_workers
  username,      \* --username
  pc,            \* position of download_all_data
  patient_ids,   \* the set built at line 133
  max_workers,   \* the pool's max_workers; 0 while there is no pool
  pending,       \* ids the comprehension of line 138 has not reached
  tasks,         \* ids handed to run_in_executor, in order
  work_queue,    \* the pool's FIFO of ids no worker has taken
  running,       \* calls in flight: records [w, id, hangs]
  calls,         \* id -> number of subprocess.run invocations
  future,        \* id -> "pending", "returned" or "raised"
  commands,      \* the command lines passed to subprocess.run
  finished,      \* calls that came back: records [id, outcome]
  log            \* messages printed by the except clauses

vars == <<csv, column, min_workers, username, pc, patient_ids, max_workers,
          pending, tasks, work_queue, running, calls, future, commands,
          finished, log>>

inputs == <<csv, column, min_workers, username>>

Init ==
  /\ csv \in {"ok", "unreadable", "no_column"}
  /\ column \in (IF csv = "ok" THEN Columns ELSE {<<>>})
  /\ min_workers \in MinWorkerValues
  /\ username \in Usernames
  /\ pc = "read"
  /\ patient_ids = {}
  /\ max_workers = 0
  /\ pending = {}
  /\ tasks = <<>>
  /\ work_queue = <<>>
  /\ running = {}
  /\ calls = <<>>
  /\ future = <<>>
  /\ commands = {}
  /\ finished = {}
  /\ log = {}

SetupError == [kind |-> "setup_error", id |-> <<>>]

\* ------------------------------------------------------ download_all_data
\* mutant of ReadCsvFails: the except clause prints nothing
ReadCsvFailsSilently ==
  /\ pc = "read"
  /\ csv # "ok"
  /\ pc' = "done"
  /\ UNCHANGED <<inputs, patient_ids, max_workers, pending, tasks, work_queue,
                 running, calls, future, commands, finished, log>>

\* lines 132-133 raise: read_csv fails or the column is missing
ReadCsvFails ==
  /\ pc = "read"
  /\ csv # "ok"
  /\ pc' = "done"
  /\ log' = log \cup {SetupError}
  /\ UNCHANGED <<inputs, patient_ids, max_workers, pending, tasks, work_queue,
                 running, calls, future, commands, finished>>

\* lines 132-133
ReadCsv ==
  /\ pc = "read"
  /\ csv = "ok"
  /\ patient_ids' = patient_ids_of(column)
  /\ calls' = [i \in patient_ids_of(column) |-> 0]
  /\ pc' = "pool"
  /\ UNCHANGED <<inputs, max_workers, pending, tasks, work_queue, running,
                 future, commands, finished, log>>

\* mutant of CreatePoolFails: the pool is created outside the try block
CreatePoolFailsUncaught ==
  /\ pc = "pool"
  /\ pool_size(min_workers, patient_ids) <= 0
  /\ pc' = "raised"
  /\ UNCHANGED <<inputs, patient_ids, max_workers, pending, tasks, work_queue,
                 running, calls, future, commands, finished, log>>

\* line 136: ThreadPoolExecutor raises ValueError when max_workers <= 0
CreatePoolFails ==
  /\ pc = "pool"
  /\ pool_size(min_workers, patient_ids) <= 0
  /\ pc' = "done"
  /\ log' = log \cup {SetupError}
  /\ UNCHANGED <<inputs, patient_ids, max_workers, pending, tasks, work_queue,
                 running, calls, future, commands, finished>>

\* line 136
CreatePool ==
  /\ pc = "pool"
  /\ pool_size(min_workers, patient_ids) > 0
  /\ max_workers' = pool_size(min_workers, patient_ids)
  /\ pending' = patient_ids
  /\ pc' = "submit"
  /\ UNCHANGED <<inputs, patient_ids, tasks, work_queue, running, calls,
                 future, commands, finished, log>>

\* line 138, one element of the comprehension (a set iterates in any order)
Submit ==
  /\ pc = "submit"
  /\ \E id \in pending :
       /\ pending' = pending \ {id}
       /\ IF isdigit(id)
          THEN /\ tasks' = Append(tasks, id)
               /\ work_queue' = Append(work_queue, id)
               /\ future' = future @@ (id :> "pending")
          ELSE UNCHANGED <<tasks, work_queue, future>>
  /\ UNCHANGED <<inputs, pc, patient_ids, max_workers, running, calls,
                 commands, finished, log>>

\* line 138 ends, line 139 starts
Await ==
  /\ pc = "submit"
  /\ pending = {}
  /\ pc' = "gather"
  /\ UNCHANGED <<inputs, patient_ids, max_workers, pending, tasks, work_queue,
                 running, calls, future, commands, finished, log>>

\* mutant of gather_ready: waits for the first future only
gather_first(f) == DOMAIN f = {} \/ \E id \in DOMAIN f : f[id] # "pending"

\* asyncio.gather(*tasks): returns when every future has a result, raises as
\* soon as one future holds an exception
gather_ready(f) ==
  \/ \A id \in DOMAIN f : f[id] # "pending"
  \/ \E id \in DOMAIN f : f[id] = "raised"

\* line 139
Gather ==
  /\ pc = "gather"
  /\ gather_ready(future)
  /\ pc' = "shutdown"
  /\ log' = IF \E id \in DOMAIN future : future[id] = "raised"
            THEN log \cup {SetupError} ELSE log
  /\ UNCHANGED <<inputs, patient_ids, max_workers, pending, tasks, work_queue,
                 running, calls, future, commands, finished>>

\* leaving the with block of line 136: executor.shutdown(wait=True)
Shutdown ==
  /\ pc = "shutdown"
  /\ work_queue = <<>>
  /\ running = {}
  /\ pc' = "done"
  /\ UNCHANGED <<inputs, patient_ids, max_workers, pending, tasks, work_queue,
                 running, calls, future, commands, finished, log>>

\* ---------------------------------------------------------- pool workers
Workers == 1..max_workers

\* mutant of idle: a worker takes work while its call is in flight
idle_always(w, run) == TRUE

idle(w, run) == \A c \in run : c.w # w

\* a free worker takes the head of the queue and runs lines 90-109 up to the
\* call of subprocess.run
StartTask(w) ==
  /\ w \in Workers
  /\ idle(w, running)
  /\ work_queue # <<>>
  /\ LET id == Head(work_queue) IN
       \E h \in BOOLEAN :
         /\ running' = running \cup {[w |-> w, id |-> id, hangs |-> h]}
         /\ work_queue' = Tail(work_queue)
         /\ calls' = [calls EXCEPT ![id] = @ + 1]
         /\ commands' = commands \cup {command(id, username)}
  /\ UNCHANGED <<inputs, pc, patient_ids, max_workers, pending, tasks, future,
                 finished, log>>

\* mutant of FinishTask: a failed download is queued again
FinishTaskRetry(w) ==
  /\ \E c \in running, o \in Outcomes :
       /\ c.w = w
       /\ ~c.hangs
       /\ running' = running \ {c}
       /\ finished' = finished \cup {[id |-> c.id, outcome |-> o]}
       /\ IF o = "ok"
          THEN /\ future' = [future EXCEPT ![c.id] = "returned"]
               /\ UNCHANGED work_queue
          ELSE /\ work_queue' = Append(work_queue, c.id)
               /\ UNCHANGED future
       /\ log' = log \cup task_log(c.id, o)
  /\ UNCHANGED <<inputs, pc, patient_ids, max_workers, pending, tasks, calls,
                 commands>>

\* mutant of FinishTask: subprocess.run is given a timeout, a hung call ends
FinishTaskTimeout(w) ==
  /\ \E c \in running, o \in Outcomes :
       /\ c.w = w
       /\ running' = running \ {c}
       /\ finished' = finished \cup {[id |-> c.id, outcome |-> o]}
       /\ future' = [future EXCEPT ![c.id] = task_future(o)]
       /\ log' = log \cup task_log(c.id, o)
  /\ UNCHANGED <<inputs, pc, patient_ids, max_workers, pending, tasks,
                 work_queue, calls, commands>>

\* subprocess.run returns or raises; lines 111-112 catch what it raises
FinishTask(w) ==
  /\ \E c \in running, o \in Outcomes :
       /\ c.w = w
       /\ ~c.hangs
       /\ running' = running \ {c}
       /\ finished' = finished \cup {[id |-> c.id, outcome |-> o]}
       /\ future' = [future EXCEPT ![c.id] = task_future(o)]
       /\ log' = log \cup task_log(c.id, o)
  /\ UNCHANGED <<inputs, pc, patient_ids, max_workers, pending, tasks,
                 work_queue, calls, commands>>

Main ==
  \/ ReadCsvFails
  \/ ReadCsv
  \/ CreatePoolFails
  \/ CreatePool
  \/ Submit
  \/ Await
  \/ Gather
  \/ Shutdown

Worker(w) == StartTask(w) \/ FinishTask(w)

Next == Main \/ \E w \in 1..MaxWorkers : Worker(w)

Spec == Init /\ [][Next]_vars

\* the event loop thread and every pool thread are scheduled fairly
FairSpec ==
  /\ Init
  /\ [][Next]_vars
  /\ WF_vars(Main)
  /\ \A w \in 1..MaxWorkers : WF_vars(Worker(w))

\* ----------------------------------------------------------------- claims
AllDigits(s) ==
  /\ Len(s) >= 1
  /\ \A k \in 1..Len(s) :
       s[k] \in {"0", "1", "2", "3", "4", "5", "6", "7", "8", "9"}

ValidIds == {id \in patient_ids_of(column) : AllDigits(id)}

Dispatched == {tasks[i] : i \in 1..Len(tasks)}

Failed == {r.id : r \in {x \in finished : x.outcome # "ok"}}

SomeHung == \E c \in running : c.hangs

\* C1: whatever the column holds (repeats, non-numeric values), the ids for
\* which a download_patient_data task is dispatched hold no id twice and no
\* id that is not an all-digit string.
C1_DispatchedUniqueNumeric ==
  /\ \A i, j \in 1..Len(tasks) : tasks[i] = tasks[j] => i = j
  /\ \A i \in 1..Len(tasks) : AllDigits(tasks[i])
  /\ Dispatched \subseteq patient_ids_of(column)

\* a finished run over a column with a repeated value and a non-numeric value
C1_Witness ==
  /\ pc = "done"
  /\ Len(tasks) >= 1
  /\ \E i, j \in 1..Len(column) : i # j /\ column[i] = column[j]
  /\ \E i \in 1..Len(column) : ~AllDigits(astype_str(column[i]))

\* C2: the worker count the pool is given never exceeds
\* min(min_workers, number of unique all-digit ids), for min_workers >= 1.
C2_WorkerCountBound ==
  min_workers >= 1 =>
    max_workers <= Min(min_workers, Cardinality(ValidIds))

\* C3: a failing call of the utility (non-zero exit, missing executable) is
\* caught inside download_patient_data: it is logged with its id and the
\* task's future ends normally; the failure touches no other task (the queue,
\* the other calls in flight and the main coroutine stay as they were), and
\* when the run ends every dispatched id was invoked and has finished.
C3_Safety ==
  /\ \A id \in DOMAIN future : future[id] # "raised"
  /\ \A id \in Failed :
       /\ [kind |-> "task_error", id |-> id] \in log
       /\ future[id] = "returned"
  /\ Dispatched # {} => SetupError \notin log
  /\ pc = "done" =>
       \A id \in Dispatched : calls[id] = 1 /\ \E r \in finished : r.id = id

C3_FailureIsolated ==
  /\ []C3_Safety
  /\ [][Failed' # Failed =>
          /\ work_queue' = work_queue
          /\ pc' = pc
          /\ \A c \in running : c.id \in Failed' \/ c \in running'
          /\ \A id \in DOMAIN future :
               id \in Failed' \/ future'[id] = future[id]]_vars

\* one download failed and another one succeeded after it was dispatched
C3_Witness ==
  /\ pc = "done"
  /\ Failed # {}
  /\ \E r \in finished : r.outcome = "ok"

\* C4: download_all_data does not get past gather, nor return, while a
\* dispatched task is queued, in flight or unfinished, also when one failed.
C4_NoEarlyReturn ==
  pc \in {"shutdown", "done"} =>
    /\ work_queue = <<>>
    /\ running = {}
    /\ max_workers > 0 => Dispatched = ValidIds
    /\ \A id \in Dispatched :
         future[id] # "pending" /\ \E r \in finished : r.id = id

\* the run returned after two or more tasks, one of them failed
C4_Witness ==
  /\ pc = "done"
  /\ Len(tasks) >= 2
  /\ Failed # {}

\* C5: when the CSV cannot be read or has no subject_id column the run is
\* aborted: a message is logged, no task is dispatched and the utility is
\* never invoked.
C5_SetupErrorAborts ==
  csv # "ok" =>
    /\ pc \in {"read", "done"}
    /\ pc = "done" => SetupError \in log
    /\ tasks = <<>> /\ work_queue = <<>> /\ running = {}
    /\ commands = {} /\ finished = {}
    /\ \A id \in DOMAIN calls : calls[id] = 0

\* the run ended on a setup error
C5_Witness == csv # "ok" /\ pc = "done"

\* C6: with min_workers >= 1 the utility is invoked exactly once per unique
\* all-digit id by the time the run ends, and never twice for an id.
C6_InvokedExactlyOnce ==
  /\ \A id \in DOMAIN calls : calls[id] <= 1
  /\ \A id \in DOMAIN calls : calls[id] = 1 => id \in ValidIds
  /\ (pc = "done" /\ csv = "ok" /\ min_workers >= 1) =>
       \A id \in ValidIds : calls[id] = 1

\* the run ended with two ids invoked, one of which failed
C6_Witness ==
  /\ pc = "done"
  /\ min_workers >= 1
  /\ Cardinality(ValidIds) >= 2
  /\ Failed # {}

ExampleId == <<"1", "0", "0", "0", "0", "0", "3", "2">>

\* C7: the URL passed to the utility is a function of the id alone:
\* base, "p" and the first two characters of the id, "/", "p" and the id,
\* "/"; id "10000032" gives folder "p10" and patient folder "p10000032".
C7_UrlFromIdAlone ==
  \A c \in commands :
    /\ c.url = <<BaseUrl, "p">>
                 \o (IF Len(c.id) <= 2 THEN c.id ELSE <<c.id[1], c.id[2]>>)
                 \o <<"/", "p">> \o c.id \o <<"/">>
    /\ c.id = ExampleId =>
         c.url = <<BaseUrl, "p", "1", "0", "/",
                   "p", "1", "0", "0", "0", "0", "0", "3", "2", "/">>
    /\ \A d \in commands : d.id = c.id => d.url = c.url

\* the utility was invoked for id 10000032 and for a one-character id
C7_Witness ==
  /\ \E c \in commands : c.id = ExampleId
  /\ \E c \in commands : Len(c.id) = 1

\* C8: the calls in flight never outnumber the pool size
\* min(min_workers, number of unique ids), no worker has two calls in flight,
\* and an id leaves the queue only when a worker is free.
C8_Safety ==
  /\ running # {} =>
       Cardinality(running) <= Min(min_workers, Cardinality(patient_ids))
  /\ \A c, d \in running : c.w = d.w => c = d
  /\ \A c, d \in running : c.id = d.id => c = d

C8_BoundedInFlight ==
  /\ []C8_Safety
  /\ [][Len(work_queue') < Len(work_queue) =>
          Cardinality(running) < Min(min_workers, Cardinality(patient_ids))]_vars

\* every worker of a pool of two is busy and an id waits in the queue
C8_Witness ==
  /\ max_workers = 2
  /\ Cardinality(running) = 2
  /\ work_queue # <<>>

\* C9: under fair scheduling the run completes unless some call hangs; a
\* hung call stays in flight forever and the run never completes.
C9_Termination ==
  /\ <>(pc = "done" \/ SomeHung)
  /\ [](SomeHung => pc # "done")
  /\ [][\A c \in running : c.hangs => c \in running']_vars

\* a call hangs while the main coroutine waits in gather
C9_Witness == SomeHung /\ pc = "gather" /\ finished # {}

\* C10: when min(min_workers, number of unique ids) <= 0 the pool cannot be
\* created: the failure is logged by the outer handler, download_all_data
\* returns without raising and no download is invoked.
C10_PoolSizeNotPositive ==
  (csv = "ok" /\ Min(min_workers, Cardinality(patient_ids_of(column))) <= 0) =>
    /\ pc \in {"read", "pool", "done"}
    /\ pc = "done" => SetupError \in log
    /\ max_workers = 0
    /\ tasks = <<>> /\ work_queue = <<>> /\ running = {}
    /\ commands = {} /\ finished = {}
    /\ \A id \in DOMAIN calls : calls[id] = 0

\* the run ended without a pool although the column holds a valid id
C10_Witness ==
  /\ csv = "ok"
  /\ pc = "done"
  /\ min_workers <= 0
  /\ ValidIds # {}
====
